---- MODULE Spec2Model ----
(***************************************************************************)
(* Model of gym/envs/robotics/robot_env.py: class RobotEnv(gym.GoalEnv).   *)
(*                                                                         *)
(* One RobotEnv object driven by a single-threaded caller.  Numbers are    *)
(* integers: one unit is the action bound 1.0, pi is PiUnits units.  The   *)
(* simulator (mujoco_py.MjSim) is reduced to one joint position qpos and   *)
(* the control vector ctrl; the render-only model parameters (textures,    *)
(* light, camera) are kept apart from it in `scene`.  The four abstract    *)
(* hooks are given a small concrete subclass body, since no RobotEnv can   *)
(* be constructed without one (line 45 calls _sample_goal).                *)
(***************************************************************************)
EXTENDS Integers, Sequences, FiniteSets

----------------------------------------------------------------------------
(* Bounds of the model *)

MaxPos == 1
MaxFails == 1
MaxViewers == 2

(* pi, in units of the action bound 1.0, rounded down *)
PiUnits == 3

None == "None"

NActionsSet == {1, 4}
ActVals == {-4, 1, 4}
Seeds == {0, 1}
Goals == 0..MaxPos
(* reset's object_pos argument: <<>> is None, <<p>> a position *)
ObjectPositions == {<<>>, <<1>>}
Modes == {"human", "rgb_array", "ansi"}
ResetSimImpls == {"base", "override"}

GeomNames == {"robot0:gripper", "object0", "table0"}
RobotGeoms == {"robot0:gripper"}
Reds == {"red_a"}
Patterns == {"checker"}
LightDirs == {"dir_a"}
CamOffsets == {1}

Min(a, b) == IF a < b THEN a ELSE b
Max(a, b) == IF a > b THEN a ELSE b
Abs(a) == IF a < 0 THEN -a ELSE a

----------------------------------------------------------------------------
(* Action space: spaces.Box(-action_val, action_val, shape=(n_actions,)) *)

action_val(n) == IF n = 4 THEN 1 ELSE PiUnits
action_space_low(n) == [i \in 1..n |-> -action_val(n)]
action_space_high(n) == [i \in 1..n |-> action_val(n)]

(* np.clip: element-wise minimum(maximum(a, low), high) *)
clip(a, low, high) == [i \in DOMAIN a |-> Min(Max(a[i], low[i]), high[i])]

(* The action vectors the caller is given to try: the first component     *)
(* ranges over ActVals (below, inside and above the bounds), the last one  *)
(* is its opposite, the components between them are 0.                     *)
Actions(n) ==
    {[i \in 1..n |-> IF i = 1 THEN x ELSE IF i = n THEN -x ELSE 0] :
        x \in ActVals}

----------------------------------------------------------------------------
(* The simulator and the subclass hooks *)

ClampPos(q) == Min(Max(q, 0), MaxPos)

(* MjSim.step(): integrates the control into the joint position *)
sim_step(s) == [s EXCEPT !.qpos = ClampPos(s.qpos + s.ctrl[1])]

(* MjSim.get_state(): the physical state, without the control vector *)
sim_get_state(s) == [qpos |-> s.qpos]

(* MjSim.set_state(state) followed by MjSim.forward() *)
sim_set_state(s, state) == [s EXCEPT !.qpos = state.qpos]

_set_action(s, action) == [s EXCEPT !.ctrl = action]

_step_callback(s) == s

_get_obs(s, g) ==
    [observation |-> <<s.qpos, s.ctrl[Len(s.ctrl)]>>,
     achieved_goal |-> s.qpos,
     desired_goal |-> g]

_is_success(achieved_goal, desired_goal) == achieved_goal = desired_goal

compute_reward(achieved_goal, desired_goal, info) ==
    IF "is_success" \in DOMAIN info /\ info.is_success
    THEN 0
    ELSE -Max(1, Abs(achieved_goal - desired_goal))

(* A subclass _reset_sim(object_pos): restores the snapshot, places the    *)
(* object when a position is given.  Whether it reports success is decided *)
(* by the caller of this operator.                                         *)
_reset_sim_override(s, state, object_pos) ==
    LET r == sim_set_state(s, state)
    IN  IF object_pos = <<>> THEN r
        ELSE [r EXCEPT !.qpos = ClampPos(object_pos[1])]

----------------------------------------------------------------------------
(* Scene randomization helpers: render-only model parameters *)

rand_texture(sc, red, pat) ==
    [sc EXCEPT !.texture =
        [name \in GeomNames |->
            IF name \in RobotGeoms THEN sc.texture[name]
            ELSE IF name = "object0" THEN red
            ELSE pat]]

set_light(sc, dir) ==
    [sc EXCEPT !.light =
        [pos |-> "arm_init_pos+(2,0,3)", dir |-> dir, castshadow |-> TRUE,
         ambient |-> 2, diffuse |-> 7, specular |-> 3]]

set_camera(sc, cam_init, y) == [sc EXCEPT !.camera = cam_init + y]

----------------------------------------------------------------------------
(* State of one RobotEnv object and of the call in progress *)

VARIABLES
    n_actions,        \* constructor argument
    reset_sim_impl,   \* "base": RobotEnv._reset_sim, "override": a subclass's
    sim,              \* self.sim: [qpos, ctrl]
    scene,            \* render-only parameters of self.sim.model
    camera_init,      \* self.camera_init
    initial_state,    \* self.initial_state
    goal,             \* self.goal
    viewer,           \* self.viewer
    np_random,        \* self.np_random, named by its seed
    pc,               \* "idle", or "reset_loop" inside reset's while loop
    did_reset_sim,    \* reset's local variable
    call,             \* the public method called last, with its arguments
    calls,            \* hooks and helpers invoked by that call, in order
    ret,              \* what that call returned or raised
    reset_obs,        \* <<o>> while the last return but at most one step is reset's o
    n_viewer_ctor,    \* number of mujoco_py.MjViewer(...) constructions
    n_viewer_setup,   \* number of _viewer_setup() invocations
    n_finish          \* number of viewer.finish() invocations

vars ==
    <<n_actions, reset_sim_impl, sim, scene, camera_init, initial_state, goal,
      viewer, np_random, pc, did_reset_sim, call, calls, ret, reset_obs,
      n_viewer_ctor, n_viewer_setup, n_finish>>

config == <<n_actions, reset_sim_impl, camera_init, initial_state>>
viewer_vars == <<viewer, n_viewer_ctor, n_viewer_setup, n_finish>>

Count(log, name) == Cardinality({i \in DOMAIN log : log[i] = name})

(* Position of the first occurrence of name in log, 0 when absent *)
IndexOf(log, name) ==
    IF \E i \in DOMAIN log : log[i] = name
    THEN CHOOSE i \in DOMAIN log :
            log[i] = name /\ \A j \in DOMAIN log : log[j] = name => i <= j
    ELSE 0

----------------------------------------------------------------------------
(* __init__ *)

Init ==
    /\ n_actions \in NActionsSet
    /\ reset_sim_impl \in ResetSimImpls
    /\ sim = [qpos |-> 0, ctrl |-> [i \in 1..n_actions |-> 0]]
    /\ scene = [texture |-> [name \in GeomNames |-> "model"],
                light |-> [pos |-> "model", dir |-> "model", castshadow |-> FALSE,
                           ambient |-> 0, diffuse |-> 0, specular |-> 0],
                camera |-> 0]
    /\ camera_init = scene.camera
    /\ viewer = None
    /\ np_random \in Seeds
    /\ initial_state = sim_get_state(sim)
    /\ goal \in Goals
    /\ pc = "idle"
    /\ did_reset_sim = FALSE
    /\ call = [op |-> "__init__"]
    /\ calls = <<"seed", "_env_setup", "_sample_goal", "_get_obs">>
    /\ ret = [kind |-> "none"]
    /\ reset_obs = <<>>
    /\ n_viewer_ctor = 0
    /\ n_viewer_setup = 0
    /\ n_finish = 0

----------------------------------------------------------------------------
(* seed *)

seed(s) ==
    /\ pc = "idle"
    /\ np_random' = s
    /\ call' = [op |-> "seed"]
    /\ calls' = <<>>
    /\ ret' = [kind |-> "seed", value |-> <<s>>]
    /\ reset_obs' = <<>>
    /\ UNCHANGED <<config, sim, scene, goal, pc, did_reset_sim, viewer_vars>>

----------------------------------------------------------------------------
(* step *)

(* step_outcome without line 68: the action reaches _set_action unclipped *)
step_outcome_noclip(action) ==
    LET s1 == _set_action(sim, action)
        s2 == sim_step(s1)
        s3 == _step_callback(s2)
        obs == _get_obs(s3, goal)
        info == [is_success |-> _is_success(obs.achieved_goal, goal)]
        reward == compute_reward(obs.achieved_goal, goal, info)
    IN  [set_action_arg |-> action,
         sim |-> s3,
         goal |-> goal,
         calls |-> <<"_set_action", "sim.step", "_step_callback", "_get_obs",
                     "_is_success", "compute_reward">>,
         ret |-> [kind |-> "step", obs |-> obs, reward |-> reward,
                  done |-> FALSE, info |-> info]]

(* step_outcome with is_success taken from the state before the tick *)
step_outcome_stale_success(action) ==
    LET clipped == clip(action, action_space_low(n_actions),
                        action_space_high(n_actions))
        before == _get_obs(sim, goal)
        s1 == _set_action(sim, clipped)
        s2 == sim_step(s1)
        s3 == _step_callback(s2)
        obs == _get_obs(s3, goal)
        info == [is_success |-> _is_success(before.achieved_goal, goal)]
        reward == compute_reward(obs.achieved_goal, goal, info)
    IN  [set_action_arg |-> clipped,
         sim |-> s3,
         goal |-> goal,
         calls |-> <<"_set_action", "sim.step", "_step_callback", "_get_obs",
                     "_is_success", "compute_reward">>,
         ret |-> [kind |-> "step", obs |-> obs, reward |-> reward,
                  done |-> FALSE, info |-> info]]

(* step_outcome with done set when the goal is reached *)
step_outcome_done_on_success(action) ==
    LET clipped == clip(action, action_space_low(n_actions),
                        action_space_high(n_actions))
        s1 == _set_action(sim, clipped)
        s2 == sim_step(s1)
        s3 == _step_callback(s2)
        obs == _get_obs(s3, goal)
        info == [is_success |-> _is_success(obs.achieved_goal, goal)]
        reward == compute_reward(obs.achieved_goal, goal, info)
    IN  [set_action_arg |-> clipped,
         sim |-> s3,
         goal |-> goal,
         calls |-> <<"_set_action", "sim.step", "_step_callback", "_get_obs",
                     "_is_success", "compute_reward">>,
         ret |-> [kind |-> "step", obs |-> obs, reward |-> reward,
                  done |-> info.is_success, info |-> info]]

(* step_outcome with _get_obs called before the simulator tick *)
step_outcome_obs_before_tick(action) ==
    LET clipped == clip(action, action_space_low(n_actions),
                        action_space_high(n_actions))
        s1 == _set_action(sim, clipped)
        obs == _get_obs(s1, goal)
        s2 == sim_step(s1)
        s3 == _step_callback(s2)
        info == [is_success |-> _is_success(obs.achieved_goal, goal)]
        reward == compute_reward(obs.achieved_goal, goal, info)
    IN  [set_action_arg |-> clipped,
         sim |-> s3,
         goal |-> goal,
         calls |-> <<"_set_action", "_get_obs", "sim.step", "_step_callback",
                     "_is_success", "compute_reward">>,
         ret |-> [kind |-> "step", obs |-> obs, reward |-> reward,
                  done |-> FALSE, info |-> info]]

(* What step(action) does to the current state: the value handed to        *)
(* _set_action, the simulator afterwards, the hooks called and the tuple   *)
(* returned.                                                               *)
step_outcome(action) ==
    LET clipped == clip(action, action_space_low(n_actions),
                        action_space_high(n_actions))
        s1 == _set_action(sim, clipped)
        s2 == sim_step(s1)
        s3 == _step_callback(s2)
        obs == _get_obs(s3, goal)
        done == FALSE
        info == [is_success |-> _is_success(obs.achieved_goal, goal)]
        reward == compute_reward(obs.achieved_goal, goal, info)
    IN  [set_action_arg |-> clipped,
         sim |-> s3,
         goal |-> goal,
         calls |-> <<"_set_action", "sim.step", "_step_callback", "_get_obs",
                     "_is_success", "compute_reward">>,
         ret |-> [kind |-> "step", obs |-> obs, reward |-> reward,
                  done |-> done, info |-> info]]

step(action) ==
    /\ pc = "idle"
    /\ LET out == step_outcome(action)
       IN  /\ sim' = out.sim
           /\ goal' = out.goal
           /\ calls' = out.calls
           /\ ret' = out.ret
           /\ call' = [op |-> "step", action |-> action,
                       set_action_arg |-> out.set_action_arg]
    /\ reset_obs' = IF ret.kind = "reset" THEN reset_obs ELSE <<>>
    /\ UNCHANGED <<config, scene, np_random, pc, did_reset_sim, viewer_vars>>

----------------------------------------------------------------------------
(* reset *)

(* reset_prologue with rand_texture called whether or not it is requested *)
reset_prologue_texture_always(rand_text, rand_shadow, rand_cam, red, pat, dir, y, g) ==
    LET sc1 == rand_texture(scene, red, pat)
        sc2 == IF rand_shadow THEN set_light(sc1, dir) ELSE sc1
        sc3 == IF rand_cam THEN set_camera(sc2, camera_init, y) ELSE sc2
    IN  [scene |-> sc3,
         goal |-> g,
         calls |-> <<"rand_texture">>
                   \o (IF rand_shadow THEN <<"set_light">> ELSE <<>>)
                   \o (IF rand_cam THEN <<"set_camera">> ELSE <<>>)
                   \o <<"_sample_goal">>]

(* Lines 118-125: the requested helpers, then the goal.  red, pat, dir and *)
(* y are the random draws of the helpers, g the goal _sample_goal returns. *)
reset_prologue(rand_text, rand_shadow, rand_cam, red, pat, dir, y, g) ==
    LET sc1 == IF rand_text THEN rand_texture(scene, red, pat) ELSE scene
        sc2 == IF rand_shadow THEN set_light(sc1, dir) ELSE sc1
        sc3 == IF rand_cam THEN set_camera(sc2, camera_init, y) ELSE sc2
    IN  [scene |-> sc3,
         goal |-> g,
         calls |-> (IF rand_text THEN <<"rand_texture">> ELSE <<>>)
                   \o (IF rand_shadow THEN <<"set_light">> ELSE <<>>)
                   \o (IF rand_cam THEN <<"set_camera">> ELSE <<>>)
                   \o <<"_sample_goal">>]

reset(object_pos, rand_text, rand_shadow, rand_cam) ==
    /\ pc = "idle"
    /\ \E red \in Reds, pat \in Patterns, dir \in LightDirs, y \in CamOffsets,
          g \in Goals :
          LET out == reset_prologue(rand_text, rand_shadow, rand_cam,
                                    red, pat, dir, y, g)
          IN  /\ scene' = out.scene
              /\ goal' = out.goal
              /\ calls' = out.calls
    /\ did_reset_sim' = FALSE
    /\ pc' = "reset_loop"
    /\ call' = [op |-> "reset", object_pos |-> object_pos, rand_text |-> rand_text,
                rand_shadow |-> rand_shadow, rand_cam |-> rand_cam]
    /\ ret' = [kind |-> "pending"]
    /\ reset_obs' = <<>>
    /\ UNCHANGED <<config, sim, np_random, viewer_vars>>

(* reset_pass with the loop left after the first pass, whatever it reports *)
reset_pass_once(ok) ==
    LET s1 == _reset_sim_override(sim, initial_state, call.object_pos)
        log == Append(calls, IF ok THEN "_reset_sim:True" ELSE "_reset_sim:False")
    IN  [sim |-> s1,
         goal |-> goal,
         did_reset_sim |-> ok,
         leave |-> TRUE,
         calls |-> Append(log, "_get_obs"),
         ret |-> [kind |-> "reset", obs |-> _get_obs(s1, goal)]]

(* reset_pass with the goal sampled again on every failed pass *)
reset_pass_resample(ok) ==
    LET s1 == _reset_sim_override(sim, initial_state, call.object_pos)
        log == Append(calls, IF ok THEN "_reset_sim:True" ELSE "_reset_sim:False")
        g == IF ok THEN goal ELSE (goal + 1) % (MaxPos + 1)
    IN  [sim |-> s1,
         goal |-> g,
         did_reset_sim |-> ok,
         leave |-> ok,
         calls |-> IF ok THEN Append(log, "_get_obs") ELSE Append(log, "_sample_goal"),
         ret |-> IF ok THEN [kind |-> "reset", obs |-> _get_obs(s1, g)]
                 ELSE [kind |-> "pending"]]

(* One pass of the while loop of lines 127-128 with a subclass _reset_sim  *)
(* that reports ok, and lines 130-131 when the loop ends.  The log entry   *)
(* of the hook carries what it reported.                                   *)
reset_pass(ok) ==
    LET s1 == _reset_sim_override(sim, initial_state, call.object_pos)
        log == Append(calls, IF ok THEN "_reset_sim:True" ELSE "_reset_sim:False")
        leave == ok
    IN  [sim |-> s1,
         goal |-> goal,
         did_reset_sim |-> ok,
         leave |-> leave,
         calls |-> IF leave THEN Append(log, "_get_obs") ELSE log,
         ret |-> IF leave THEN [kind |-> "reset", obs |-> _get_obs(s1, goal)]
                 ELSE [kind |-> "pending"]]

reset_loop ==
    /\ pc = "reset_loop"
    /\ reset_sim_impl = "override"
    /\ \E ok \in BOOLEAN :
          /\ ok \/ Count(calls, "_reset_sim:False") < MaxFails
          /\ LET out == reset_pass(ok)
             IN  /\ sim' = out.sim
                 /\ goal' = out.goal
                 /\ did_reset_sim' = out.did_reset_sim
                 /\ calls' = out.calls
                 /\ ret' = out.ret
                 /\ pc' = IF out.leave THEN "idle" ELSE "reset_loop"
                 /\ reset_obs' = IF out.leave THEN <<out.ret.obs>> ELSE <<>>
    /\ UNCHANGED <<config, scene, np_random, call, viewer_vars>>

(* Line 128 with the base class's _reset_sim(self), lines 161-169: the     *)
(* call passes object_pos to a method that takes no argument.              *)
reset_loop_base ==
    /\ pc = "reset_loop"
    /\ reset_sim_impl = "base"
    /\ pc' = "idle"
    /\ ret' = [kind |-> "raise", error |-> "TypeError"]
    /\ UNCHANGED <<config, sim, scene, goal, np_random, did_reset_sim, call, calls,
                   reset_obs, viewer_vars>>

----------------------------------------------------------------------------
(* close, render *)

(* close_outcome without the test of line 134 *)
close_outcome_always_finish == [viewer |-> None, finished |-> 1]

close_outcome ==
    IF viewer # None
    THEN [viewer |-> None, finished |-> 1]
    ELSE [viewer |-> viewer, finished |-> 0]

close ==
    /\ pc = "idle"
    /\ LET out == close_outcome
       IN  /\ viewer' = out.viewer
           /\ n_finish' = n_finish + out.finished
           /\ calls' = IF out.finished = 1 THEN <<"viewer.finish">> ELSE <<>>
    /\ call' = [op |-> "close"]
    /\ ret' = [kind |-> "close"]
    /\ reset_obs' = <<>>
    /\ UNCHANGED <<config, sim, scene, goal, np_random, pc, did_reset_sim,
                   n_viewer_ctor, n_viewer_setup>>

(* _get_viewer without the test of line 153 *)
_get_viewer_always(v) == [viewer |-> "MjViewer", constructed |-> 1, setups |-> 1]

(* _get_viewer() on viewer field v: the field afterwards, and how many     *)
(* viewers were constructed and set up by the call.                        *)
_get_viewer(v) ==
    IF v = None
    THEN [viewer |-> "MjViewer", constructed |-> 1, setups |-> 1]
    ELSE [viewer |-> v, constructed |-> 0, setups |-> 0]

(* The frame read_pixels returns has its first row at the bottom *)
read_pixels(s, sc) == <<"bottom_row", "top_row">>

Reverse(rows) == [i \in 1..Len(rows) |-> rows[Len(rows) + 1 - i]]

render_outcome(mode) ==
    IF mode = "rgb_array"
    THEN LET v1 == _get_viewer(viewer)
             v2 == _get_viewer(v1.viewer)
         IN  [viewer |-> v2.viewer,
              constructed |-> v1.constructed + v2.constructed,
              setups |-> v1.setups + v2.setups,
              calls |-> <<"_render_callback", "viewer.render", "viewer.read_pixels">>,
              ret |-> [kind |-> "render", value |-> Reverse(read_pixels(sim, scene))]]
    ELSE IF mode = "human"
    THEN LET v1 == _get_viewer(viewer)
         IN  [viewer |-> v1.viewer,
              constructed |-> v1.constructed,
              setups |-> v1.setups,
              calls |-> <<"_render_callback", "viewer.render">>,
              ret |-> [kind |-> "render", value |-> <<>>]]
    ELSE [viewer |-> viewer, constructed |-> 0, setups |-> 0,
          calls |-> <<"_render_callback">>,
          ret |-> [kind |-> "render", value |-> <<>>]]

render(mode) ==
    /\ pc = "idle"
    /\ LET out == render_outcome(mode)
       IN  /\ n_viewer_ctor + out.constructed <= MaxViewers
           /\ viewer' = out.viewer
           /\ n_viewer_ctor' = n_viewer_ctor + out.constructed
           /\ n_viewer_setup' = n_viewer_setup + out.setups
           /\ calls' = out.calls
           /\ ret' = out.ret
    /\ call' = [op |-> "render", mode |-> mode]
    /\ reset_obs' = <<>>
    /\ UNCHANGED <<config, sim, scene, goal, np_random, pc, did_reset_sim, n_finish>>

----------------------------------------------------------------------------
(* The helpers called directly: they are public methods *)

helper_outcome(name, red, pat, dir, y) ==
    [scene |-> IF name = "rand_texture" THEN rand_texture(scene, red, pat)
               ELSE IF name = "set_light" THEN set_light(scene, dir)
               ELSE set_camera(scene, camera_init, y),
     sim |-> sim,
     goal |-> goal,
     initial_state |-> initial_state]

helper(name) ==
    /\ pc = "idle"
    /\ \E red \in Reds, pat \in Patterns, dir \in LightDirs, y \in CamOffsets :
          LET out == helper_outcome(name, red, pat, dir, y)
          IN  /\ scene' = out.scene
              /\ sim' = out.sim
              /\ goal' = out.goal
              /\ initial_state' = out.initial_state
    /\ call' = [op |-> name]
    /\ calls' = <<>>
    /\ ret' = [kind |-> "helper"]
    /\ reset_obs' = <<>>
    /\ UNCHANGED <<n_actions, reset_sim_impl, camera_init, np_random, pc,
                   did_reset_sim, viewer_vars>>

Helpers == {"rand_texture", "set_light", "set_camera"}

----------------------------------------------------------------------------

Next ==
    \/ \E s \in Seeds : seed(s)
    \/ \E action \in Actions(n_actions) : step(action)
    \/ \E object_pos \in ObjectPositions, rand_text, rand_shadow, rand_cam \in BOOLEAN :
          reset(object_pos, rand_text, rand_shadow, rand_cam)
    \/ reset_loop
    \/ reset_loop_base
    \/ close
    \/ \E mode \in Modes : render(mode)
    \/ \E name \in Helpers : helper(name)

Spec == Init /\ [][Next]_vars

----------------------------------------------------------------------------
(* Properties *)

Clipped(action) ==
    clip(action, action_space_low(n_actions), action_space_high(n_actions))

StepOrder ==
    <<"_set_action", "sim.step", "_step_callback", "_get_obs", "_is_success",
      "compute_reward">>

ResetSimCalls(log) == Count(log, "_reset_sim:True") + Count(log, "_reset_sim:False")

(* The step taken enters reset (lines 112-126) *)
EntersReset == pc = "idle" /\ pc' = "reset_loop"

(* The step taken is a whole call of the named public method *)
Calls(op) == pc = "idle" /\ pc' = "idle" /\ call'.op = op

(* C1: in every state where a call can be made, step(action) and           *)
(* step(clip(action)) hand the same value to _set_action, leave the same   *)
(* simulator state and return the same tuple, for every action inside or   *)
(* outside the bounds; and a step that was given an out-of-range action    *)
(* returned its tuple, it did not raise.                                   *)
C1_StepOfClippedAction ==
    /\ pc = "idle" =>
          \A action \in Actions(n_actions) :
             step_outcome(action) = step_outcome(Clipped(action))
    /\ call.op = "step" =>
          /\ ret.kind = "step"
          /\ call.set_action_arg = Clipped(call.action)
          /\ sim.ctrl = Clipped(call.action)

C1_Witness ==
    /\ call.op = "step"
    /\ call.action # Clipped(call.action)
    /\ ret.kind = "step"
    /\ sim.ctrl # call.action

(* C2: with a _reset_sim that reports failure N times and then success,    *)
(* reset returns after exactly N+1 invocations of the hook: when it has    *)
(* returned, the hook's reports are N times False followed by one True,    *)
(* which is the last one; while the most recent report is False reset has  *)
(* neither returned nor raised, and the loop can make its next pass.       *)
C2_ResetRetriesUntilSuccess ==
    /\ (call.op = "reset" /\ ret.kind = "reset") =>
          /\ did_reset_sim
          /\ Count(calls, "_reset_sim:True") = 1
          /\ ResetSimCalls(calls) = Count(calls, "_reset_sim:False") + 1
          /\ calls[Len(calls)] = "_get_obs"
          /\ calls[Len(calls) - 1] = "_reset_sim:True"
    /\ (call.op = "reset" /\ reset_sim_impl = "override"
        /\ Count(calls, "_reset_sim:True") = 0) =>
          /\ pc = "reset_loop"
          /\ ret.kind = "pending"
          /\ ~did_reset_sim
          /\ ENABLED reset_loop

C2_Witness ==
    /\ call.op = "reset"
    /\ ret.kind = "reset"
    /\ Count(calls, "_reset_sim:False") = MaxFails
    /\ ResetSimCalls(calls) = MaxFails + 1

(* C3 as stated: the is_success of the step right after a reset equals     *)
(* _is_success of the achieved_goal that the reset returned.               *)
C3_SuccessAsAtReset ==
    (call.op = "step" /\ reset_obs # <<>>) =>
        ret.info.is_success = _is_success(reset_obs[1].achieved_goal, goal)

(* C3 amended: the is_success of the step right after a reset is           *)
(* _is_success of the achieved_goal of the observation that step returns   *)
(* and the goal the reset sampled; it equals the value at the reset when   *)
(* the step left achieved_goal as the reset returned it.                   *)
C3_SuccessOfSteppedState ==
    (call.op = "step" /\ reset_obs # <<>>) =>
        /\ goal = reset_obs[1].desired_goal
        /\ ret.obs.desired_goal = goal
        /\ ret.info.is_success = _is_success(ret.obs.achieved_goal, goal)
        /\ ret.obs.achieved_goal = reset_obs[1].achieved_goal =>
              ret.info.is_success = _is_success(reset_obs[1].achieved_goal, goal)

C3_Witness ==
    /\ call.op = "step"
    /\ reset_obs # <<>>
    /\ ret.obs.achieved_goal # reset_obs[1].achieved_goal
    /\ ret.info.is_success # _is_success(reset_obs[1].achieved_goal, goal)

(* C4: with the base class's _reset_sim, a reset that is over has returned *)
(* the observation of the restored state after one _reset_sim attempt.     *)
C4_BaseResetRestoresSnapshot ==
    (reset_sim_impl = "base" /\ call.op = "reset" /\ pc = "idle") =>
        /\ ret.kind = "reset"
        /\ ResetSimCalls(calls) = 1
        /\ sim_get_state(sim) = initial_state
        /\ ret.obs = _get_obs(sim, goal)

(* C5: render("human") ends with a viewer present and returns, whether or  *)
(* not one was present before, also after close and after repeated close;  *)
(* close leaves no viewer, calls finish once when there was a viewer and   *)
(* does nothing when there was none.                                       *)
C5_RenderAfterClose ==
    [][/\ (Calls("render") /\ call'.mode = "human") =>
             /\ viewer' # None
             /\ ret'.kind = "render"
             /\ viewer = None => n_viewer_ctor' = n_viewer_ctor + 1
       /\ Calls("close") =>
             /\ viewer' = None
             /\ viewer # None => (n_finish' = n_finish + 1 /\ calls' = <<"viewer.finish">>)
             /\ viewer = None => (n_finish' = n_finish /\ calls' = <<>>)
             /\ UNCHANGED <<sim, scene, goal, initial_state>>]_vars

C5_Witness ==
    /\ call.op = "render"
    /\ call.mode = "human"
    /\ viewer # None
    /\ n_finish >= 1
    /\ n_viewer_ctor = n_finish + 1

(* C6: no viewer is constructed before the first render; a viewer is       *)
(* constructed, and _viewer_setup invoked, only by a render in one of the  *)
(* two modes that finds no viewer, once each; while a viewer is present    *)
(* no render constructs another or invokes _viewer_setup again.            *)
C6_LazyViewer ==
    /\ [](n_viewer_ctor = 0 => viewer = None)
    /\ [](n_viewer_setup = n_viewer_ctor)
    /\ [][/\ (n_viewer_ctor' # n_viewer_ctor \/ n_viewer_setup' # n_viewer_setup) =>
                /\ Calls("render")
                /\ call'.mode \in {"human", "rgb_array"}
                /\ viewer = None
                /\ viewer' # None
                /\ n_viewer_ctor' = n_viewer_ctor + 1
                /\ n_viewer_setup' = n_viewer_setup + 1
          /\ (viewer = None /\ viewer' # None) => n_viewer_ctor' = n_viewer_ctor + 1
          /\ (Calls("render") /\ viewer # None) =>
                UNCHANGED <<viewer, n_viewer_ctor, n_viewer_setup>>]_vars

C6_Witness ==
    /\ call.op = "render"
    /\ call.mode = "rgb_array"
    /\ calls = <<"_render_callback", "viewer.render", "viewer.read_pixels">>
    /\ n_viewer_ctor = 1
    /\ n_viewer_setup = 1
    /\ n_finish = 0

(* C7: entering reset invokes rand_texture, set_light, set_camera exactly  *)
(* when rand_text, rand_shadow, rand_cam is true, each whatever the other  *)
(* two are, all before _sample_goal, and changes only the part of the      *)
(* scene whose helper ran; no other call of the adapter invokes a helper   *)
(* or changes the scene; a helper, inside reset or called directly, leaves *)
(* the simulator state and the snapshot unchanged, and called directly     *)
(* leaves the goal unchanged.                                              *)
C7_HelpersOnlyOnRequest ==
    [][/\ EntersReset =>
             /\ call'.op = "reset"
             /\ \A h \in Helpers :
                   /\ Count(calls', h) =
                         (IF (h = "rand_texture" /\ call'.rand_text)
                             \/ (h = "set_light" /\ call'.rand_shadow)
                             \/ (h = "set_camera" /\ call'.rand_cam)
                          THEN 1 ELSE 0)
                   /\ IndexOf(calls', h) < IndexOf(calls', "_sample_goal")
             /\ ~call'.rand_text => scene'.texture = scene.texture
             /\ ~call'.rand_shadow => scene'.light = scene.light
             /\ ~call'.rand_cam => scene'.camera = scene.camera
             /\ UNCHANGED <<sim, initial_state>>
       /\ ~EntersReset =>
             /\ \A h \in Helpers : Count(calls', h) = Count(calls, h) \/ Count(calls', h) = 0
             /\ call'.op \notin Helpers => scene' = scene
       /\ (pc' = "idle" /\ call'.op \in Helpers) =>
             UNCHANGED <<sim, goal, initial_state>>]_vars

C7_Witness ==
    /\ call.op = "reset"
    /\ ret.kind = "reset"
    /\ ~call.rand_text /\ call.rand_shadow /\ ~call.rand_cam
    /\ scene.light.castshadow
    /\ scene.texture["object0"] = "model"
    /\ scene.camera = camera_init
    /\ sim_get_state(sim) = initial_state

(* C8: every tuple step returns has done = FALSE, also when its            *)
(* info.is_success is TRUE.                                                *)
C8_DoneAlwaysFalse ==
    (call.op = "step" \/ ret.kind = "step") =>
        /\ ret.kind = "step"
        /\ ret.done = FALSE

C8_Witness ==
    /\ ret.kind = "step"
    /\ ret.info.is_success
    /\ ret.done = FALSE

(* C9: a step invokes _set_action with the clipped action, one simulator   *)
(* tick, _step_callback, _get_obs, _is_success and compute_reward, once    *)
(* each and in this order: the simulator afterwards is the old one with    *)
(* the clipped action set, ticked once and passed through _step_callback;  *)
(* the observation returned is that of the simulator afterwards;           *)
(* is_success and reward come from its achieved_goal and the goal, and     *)
(* compute_reward is given the info that holds is_success.                 *)
C9_StepOrder ==
    [][Calls("step") =>
          /\ calls' = StepOrder
          /\ call'.set_action_arg = Clipped(call'.action)
          /\ sim' = _step_callback(sim_step(_set_action(sim, Clipped(call'.action))))
          /\ ret'.obs = _get_obs(sim', goal)
          /\ DOMAIN ret'.info = {"is_success"}
          /\ ret'.info.is_success = _is_success(ret'.obs.achieved_goal, goal)
          /\ ret'.reward = compute_reward(ret'.obs.achieved_goal, goal, ret'.info)]_vars

C9_Witness ==
    /\ call.op = "step"
    /\ calls = StepOrder
    /\ call.action # call.set_action_arg
    /\ ret.obs.achieved_goal = sim.qpos
    /\ ret.info.is_success
    /\ ret.reward = 0

(* C10: the goal changes only on entering reset; a reset invokes           *)
(* _sample_goal once, before its first _reset_sim attempt, and no retry of *)
(* the loop samples again or changes the goal; step, render, close, seed   *)
(* leave the goal unchanged, and a step's desired_goal is that goal.       *)
C10_GoalOnlyResampledByReset ==
    /\ [](call.op \in {"reset", "__init__"} =>
             /\ Count(calls, "_sample_goal") = 1
             /\ \A i \in DOMAIN calls :
                   calls[i] \in {"_reset_sim:True", "_reset_sim:False"} =>
                       IndexOf(calls, "_sample_goal") < i)
    /\ [][/\ goal' # goal => EntersReset
          /\ EntersReset => (calls'[Len(calls')] = "_sample_goal"
                             /\ ResetSimCalls(calls') = 0)
          /\ pc = "reset_loop" => goal' = goal
          /\ (pc' = "idle" /\ call'.op \in {"step", "render", "close", "seed"}) =>
                goal' = goal
          /\ Calls("step") => ret'.obs.desired_goal = goal]_vars

C10_Witness ==
    /\ call.op = "reset"
    /\ ret.kind = "reset"
    /\ Count(calls, "_reset_sim:False") >= 1
    /\ Count(calls, "_sample_goal") = 1
    /\ ret.obs.desired_goal = goal

====
